---- MODULE Spec2Model ----
(***************************************************************************)
(* A model of the Linky integration (custom_components/linky): the         *)
(* refresh cycle of LinkyDataUpdateCoordinator, the statistics merge       *)
(* (_insert_statistics), the historical import (import_statistics) and     *)
(* the setup of a configuration record.                                    *)
(*                                                                         *)
(* The specifications share the variables:                                 *)
(*   Spec           : setup and refresh cycles of one record, step by step *)
(*                    (one step per await of _async_update_data);          *)
(*   SpecMerge      : _insert_statistics and import_statistics applied to  *)
(*                    the statistics sink with any fetched series as input;*)
(*   SpecService    : the import_historical_data service, any dates;       *)
(*   SpecFlow       : the setup flow;                                      *)
(*   SpecSensor     : the sensors reading a snapshot;                      *)
(*   SpecInterleave : one merge and one import split at their awaits.      *)
(***************************************************************************)
EXTENDS Integers, Sequences, FiniteSets

VARIABLES
    stats,               \* the recorder's long-term statistics, per statistic id
    batch,               \* the points last handed to async_add_external_statistics, per id
    last_read,           \* last_stats_time as computed by the last statistics operation (0: None)
    sink_log,            \* the recorder calls of the current operation, in order
    history,             \* the statistics operations run so far, in order
    import_result,       \* how the last import_historical_data call ended
    import_calls,        \* the API fetches of the last import_historical_data call, in order
    today,               \* date.today(); the cycles of one behaviour run on one day
    entry_state,         \* the state of the configuration record
    pc,                  \* position of the refresh cycle inside _async_update_data
    step,                \* the fetch the cycle is at (1..5)
    data,                \* the local LinkyData being filled by the cycle
    calls,               \* the fetchers called by the current cycle, in order
    primary_failed,      \* each of the first three fetches issued so far raised APIError
    outcome,             \* how the last cycle ended
    coordinator_data,    \* coordinator.data: the snapshot the sensors read
    last_update_success, \* coordinator.last_update_success
    client,              \* the AsyncLinkyClient of the last setup: "none", "open" or "closed"
    runtime_data,        \* entry.runtime_data holds a coordinator
    sensors_added,       \* the sensor platform of the record is set up: its six sensors exist
    service_registered,  \* hass.services.has_service(DOMAIN, "import_historical_data")
    flow_step,           \* the step the setup flow in progress is at ("none": no flow)
    flow_result,         \* the type of the last result a flow step returned
    flow_errors,         \* errors["base"] of the form last shown ("none": no error)
    flow_token,          \* LinkyConfigFlow._token ("none": None)
    flow_prms,           \* LinkyConfigFlow._prms
    flow_denied,         \* a selection of the flow in progress was refused access
    entries,             \* the configuration records of the domain
    sensor_state,        \* what each sensor last wrote to the host's state machine
    serialized,          \* the host runs the statistics operations of the record one at a time
    pending,             \* per statistics operation run step by step: where it is, what it read
    records,             \* per PRM, the state and the client of its configuration record
    service_handler,     \* the coordinator the registered handler holds: its record's PRM, the
                         \* state of its client, whether it is still the record's coordinator
    invoked              \* the record the last service call ran on, as it was at the call

vars == <<stats, batch, last_read, sink_log, history, import_result, import_calls, today,
          entry_state, pc, step, data, calls, primary_failed, outcome,
          coordinator_data, last_update_success, client, runtime_data, sensors_added,
          service_registered, flow_step, flow_result,
          flow_errors, flow_token, flow_prms, flow_denied, entries, sensor_state,
          serialized, pending, records, service_handler, invoked>>

statsVars == <<stats, batch, last_read, sink_log, history, import_result, import_calls>>

flowVars == <<flow_step, flow_result, flow_errors, flow_token, flow_prms, flow_denied,
              entries>>

\* the variables that only the sensor and the interleaving specifications change
auxVars == <<sensor_state, serialized, pending, records, service_handler, invoked>>

\* the variables of the specification of several records
recordVars == <<records, service_handler, invoked>>

setupVars == <<runtime_data, sensors_added, service_registered>>

cycleVars == <<today, entry_state, pc, step, data, calls, primary_failed, outcome,
               coordinator_data, last_update_success, client, setupVars>>

----------------------------------------------------------------------------
(* Bounds *)

\* days are numbered 1..MaxDay
MaxDay == 2

\* the statistics operations of one behaviour of SpecMerge
MaxOps == 2

Days == 1 .. MaxDay

----------------------------------------------------------------------------
(* pylinky.MeteringData, as far as the integration reads it *)

\* what the meter recorded on day d (the value of that day's reading)
ReadingValue(d) == d

\* the readings of the days a..b, in chronological order
Readings(a, b) == [i \in 1 .. (b - a + 1) |-> [date |-> a + i - 1, value |-> ReadingValue(a + i - 1)]]

\* a fetcher returning None
None == [present |-> FALSE, interval_reading |-> <<>>]

\* a fetcher returning a MeteringData with the given interval_reading
MeteringData(readings) == [present |-> TRUE, interval_reading |-> readings]

\* every series a daily fetcher can return: the readings of a range of days, or none at all
Series == {MeteringData(<<>>)} \cup {MeteringData(Readings(a, b)) : a \in Days, b \in Days}

\* MeteringData | None
MeteringOpt == {None} \cup Series

\* the two statistic ids: f"{DOMAIN}:{prm}_energy_consumption" and ..._energy_production
consumption_statistic_id == "energy_consumption"

production_statistic_id == "energy_production"

StatisticIds == {consumption_statistic_id, production_statistic_id}

----------------------------------------------------------------------------
(* The recorder (homeassistant.components.recorder.statistics) as called here *)

\* datetime.combine(reading_date, datetime.min.time()) then dt_util.as_utc(...).timestamp():
\* the start of the day, counted in hours
StatTime(d) == 24 * d

\* the stored point of series id with the latest start
LastPoint(id) == CHOOSE p \in stats[id] : \A q \in stats[id] : q.start <= p.start

\* get_last_statistics(hass, 1, id, True, types): {} when nothing is stored, else the
\* latest row; a row always carries "start" and carries "sum" only when types names it
get_last_statistics(id, types) ==
    IF stats[id] = {} THEN <<>>
    ELSE IF "sum" \in types
         THEN << [start |-> LastPoint(id).start, sum |-> LastPoint(id).sum] >>
         ELSE << [start |-> LastPoint(id).start] >>

\* the types argument of both modules' calls: set()
StatTypes == {}

\* row.get("sum", 0)
GetSum(row) == IF "sum" \in DOMAIN row THEN row.sum ELSE 0

\* async_add_external_statistics(hass, metadata, statistics): a point whose start is
\* already stored replaces the stored one, the others are inserted
async_add_external_statistics(stored, statistics) ==
    {p \in stored : \A i \in 1 .. Len(statistics) : statistics[i].start # p.start}
        \cup {statistics[i] : i \in 1 .. Len(statistics)}

----------------------------------------------------------------------------
(* What a fetcher of the API client can do *)

\* the ways an awaited fetch ends: it returns (a series or None) or raises
Raises == {"none", "APIError", "AuthenticationError", "Exception"}

\* a fetch that returns value
Returns(value) == [raises |-> "none", value |-> value]

\* a fetch that raises err
Raise(err) == [raises |-> err, value |-> None]

\* every way a daily fetch can end
DailyFetch == {Returns(v) : v \in MeteringOpt} \cup {Raise(e) : e \in Raises \ {"none"}}

----------------------------------------------------------------------------
(* LinkyDataUpdateCoordinator._insert_statistics *)

\* last_stat: the first get_last_statistics call
last_stat == get_last_statistics(consumption_statistic_id, StatTypes)

\* last_prod_stat: the second call, made only when last_stat is not empty
last_prod_stat == get_last_statistics(production_statistic_id, StatTypes)

\* last_stats_time; None is written 0, which "if last_stats_time and ..." treats alike
last_stats_time == IF Len(last_stat) = 0 THEN 0 ELSE last_stat[1].start

\* consumption_sum before the loop
consumption_sum == IF Len(last_stat) = 0 THEN 0 ELSE GetSum(last_stat[1])

\* production_sum before the loop
production_sum ==
    IF Len(last_stat) = 0 THEN 0
    ELSE IF Len(last_prod_stat) # 0 THEN GetSum(last_prod_stat[1]) ELSE 0

\* "if last_stats_time and stat_time.timestamp() <= last_stats_time: continue"
AlreadyRecorded(lst, stat_time) == lst # 0 /\ stat_time <= lst

\* the loop over interval_reading from reading i on, with running sum acc:
\* the StatisticData appended, in order
RECURSIVE MergeLoop(_, _, _, _)
MergeLoop(interval_reading, i, lst, acc) ==
    IF i > Len(interval_reading) THEN <<>>
    ELSE LET reading == interval_reading[i]
             stat_time == StatTime(reading.date)
             state == reading.value
         IN  IF AlreadyRecorded(lst, stat_time)
             THEN MergeLoop(interval_reading, i + 1, lst, acc)
             ELSE << [start |-> stat_time, state |-> state, sum |-> acc + state] >>
                      \o MergeLoop(interval_reading, i + 1, lst, acc + state)

\* consumption_statistics: "if daily_consumption and daily_consumption.interval_reading"
consumption_statistics(daily_consumption) ==
    IF daily_consumption.present /\ Len(daily_consumption.interval_reading) > 0
    THEN MergeLoop(daily_consumption.interval_reading, 1, last_stats_time, consumption_sum)
    ELSE <<>>

\* production_statistics: the same loop, against the same last_stats_time
production_statistics(daily_production) ==
    IF daily_production.present /\ Len(daily_production.interval_reading) > 0
    THEN MergeLoop(daily_production.interval_reading, 1, last_stats_time, production_sum)
    ELSE <<>>

\* the recorder calls an operation makes: the reads, then one write per non-empty batch
SinkCalls(reads, cs, ps) ==
    reads \o (IF Len(cs) > 0 THEN <<"add_consumption">> ELSE <<>>)
          \o (IF Len(ps) > 0 THEN <<"add_production">> ELSE <<>>)

\* a faulty variant of Submit in which the production write is nested under the
\* consumption one
Submit_ProductionUnderConsumption(cs, ps) ==
    [id \in StatisticIds |->
        IF id = consumption_statistic_id
        THEN IF Len(cs) > 0 THEN async_add_external_statistics(stats[id], cs) ELSE stats[id]
        ELSE IF Len(cs) > 0 /\ Len(ps) > 0
             THEN async_add_external_statistics(stats[id], ps) ELSE stats[id]]

\* the statistics after the two conditional async_add_external_statistics calls
Submit(cs, ps) ==
    [id \in StatisticIds |->
        IF id = consumption_statistic_id
        THEN IF Len(cs) > 0 THEN async_add_external_statistics(stats[id], cs) ELSE stats[id]
        ELSE IF Len(ps) > 0 THEN async_add_external_statistics(stats[id], ps) ELSE stats[id]]

\* the two batches of an operation, per statistic id
Batches(cs, ps) ==
    [id \in StatisticIds |-> IF id = consumption_statistic_id THEN cs ELSE ps]

\* the get_last_statistics calls of _insert_statistics: the production one is made only
\* when a consumption point is stored
MergeReads ==
    IF Len(last_stat) = 0 THEN <<"get_last_consumption">>
    ELSE <<"get_last_consumption", "get_last_production">>

\* _insert_statistics(daily_consumption, daily_production), from the reads to the writes
insert_statistics(daily_consumption, daily_production) ==
    LET cs == consumption_statistics(daily_consumption)
        ps == production_statistics(daily_production)
    IN  /\ stats' = Submit(cs, ps)
        /\ batch' = Batches(cs, ps)
        /\ last_read' = last_stats_time
        /\ sink_log' = SinkCalls(MergeReads, cs, ps)

----------------------------------------------------------------------------
(* LinkyDataUpdateCoordinator.import_statistics *)

\* consumption_sum of import_statistics before its loop
import_consumption_sum == IF Len(last_stat) # 0 THEN GetSum(last_stat[1]) ELSE 0

\* production_sum of import_statistics before its loop
import_production_sum == IF Len(last_prod_stat) # 0 THEN GetSum(last_prod_stat[1]) ELSE 0

\* a faulty variant of ImportLoop that does not carry the running sum forward:
\* every point's sum is acc plus its own value
RECURSIVE ImportLoop_NoCarry(_, _, _)
ImportLoop_NoCarry(interval_reading, i, acc) ==
    IF i > Len(interval_reading) THEN <<>>
    ELSE << [start |-> StatTime(interval_reading[i].date),
             state |-> interval_reading[i].value,
             sum |-> acc + interval_reading[i].value] >>
             \o ImportLoop_NoCarry(interval_reading, i + 1, acc)

\* the loop of import_statistics over interval_reading: no reading is skipped
RECURSIVE ImportLoop(_, _, _)
ImportLoop(interval_reading, i, acc) ==
    IF i > Len(interval_reading) THEN <<>>
    ELSE LET reading == interval_reading[i]
             stat_time == StatTime(reading.date)
             state == reading.value
         IN  << [start |-> stat_time, state |-> state, sum |-> acc + state] >>
                 \o ImportLoop(interval_reading, i + 1, acc + state)

\* the points import_statistics builds from one fetch: an APIError leaves the list empty
ImportPoints(fetch, acc) ==
    IF fetch.raises = "none" /\ fetch.value.present /\ Len(fetch.value.interval_reading) > 0
    THEN ImportLoop(fetch.value.interval_reading, 1, acc)
    ELSE <<>>

\* whether a fetch of import_statistics ends the import: only APIError is caught,
\* and AuthenticationError is re-raised before it
ImportAborts(fetch) == fetch.raises \in {"AuthenticationError", "Exception"}

\* one fetch of import_statistics: the fetcher and the range it is called with
ImportCall(fetcher, start, end) == [fetcher |-> fetcher, start |-> start, end |-> end]

\* the fetches import_statistics issues: the production fetch is not reached when the
\* consumption fetch raises out of the function
ImportCalls(start, end, cfetch) ==
    IF ImportAborts(cfetch)
    THEN << ImportCall("get_daily_consumption", start, end) >>
    ELSE << ImportCall("get_daily_consumption", start, end),
            ImportCall("get_daily_production", start, end) >>

\* a faulty variant of import_statistics that writes the consumption points before it
\* fetches production
import_statistics_WritesBetweenFetches(start, end, cfetch, pfetch) ==
    LET cs == ImportPoints(cfetch, import_consumption_sum)
        ps == ImportPoints(pfetch, import_production_sum)
        reads == <<"get_last_consumption", "get_last_production">>
        aborted == ImportAborts(cfetch) \/ ImportAborts(pfetch)
    IN  /\ import_calls' = ImportCalls(start, end, cfetch)
        /\ import_result' = IF aborted THEN "raised" ELSE "done"
        /\ stats' = IF ImportAborts(cfetch) THEN stats
                    ELSE IF ImportAborts(pfetch) THEN Submit(cs, <<>>)
                    ELSE Submit(cs, ps)
        /\ batch' = IF ImportAborts(cfetch) THEN Batches(<<>>, <<>>)
                    ELSE IF ImportAborts(pfetch) THEN Batches(cs, <<>>)
                    ELSE Batches(cs, ps)
        /\ last_read' = 0
        /\ sink_log' = IF ImportAborts(cfetch) THEN reads
                       ELSE IF ImportAborts(pfetch) THEN SinkCalls(reads, cs, <<>>)
                       ELSE SinkCalls(reads, cs, ps)

\* import_statistics(start, end) with the two fetches ending as cfetch and pfetch
import_statistics(start, end, cfetch, pfetch) ==
    LET cs == ImportPoints(cfetch, import_consumption_sum)
        ps == ImportPoints(pfetch, import_production_sum)
        reads == <<"get_last_consumption", "get_last_production">>
        aborted == ImportAborts(cfetch) \/ ImportAborts(pfetch)
    IN  /\ import_calls' = ImportCalls(start, end, cfetch)
        /\ import_result' = IF aborted THEN "raised" ELSE "done"
        /\ stats' = IF aborted THEN stats ELSE Submit(cs, ps)
        /\ batch' = IF aborted THEN Batches(<<>>, <<>>) ELSE Batches(cs, ps)
        /\ last_read' = 0
        /\ sink_log' = IF aborted THEN reads ELSE SinkCalls(reads, cs, ps)

----------------------------------------------------------------------------
(* State after construction *)

\* LinkyData(): every field None
LinkyData == [f \in {"daily_consumption", "load_curve", "max_power", "daily_production",
                     "production_load_curve"} |-> None]

\* the keys of SENSOR_DESCRIPTIONS
SensorKeys == {"daily_consumption", "total_consumption_week", "current_power",
               "max_power", "daily_production", "current_production_power"}

\* a native_value of None
NoValue == [some |-> FALSE, value |-> 0]

\* a native_value that is a number
Some(v) == [some |-> TRUE, value |-> v]

\* the metering points a record can be configured for
RecordPrms == {"prm_1", "prm_2"}

\* no record is configured for the PRM
NoRecord == [state |-> "none", client |-> "none"]

\* the service has not been called
NotInvoked == [prm |-> "none", state |-> "none", client |-> "none", current |-> FALSE]
\* no handler is registered
NoHandler == [prm |-> "none", client |-> "none", current |-> FALSE]

\* the two operations that write the statistics of a record
Writers == {"merge", "import"}

\* an operation that has not made its get_last_statistics calls
NotStarted == [pc |-> "idle"]

\* a sensor that has not written its state yet
Unwritten == [written |-> FALSE, available |-> FALSE, native_value |-> NoValue]

\* nothing stored, no record set up, no cycle running
Init ==
    /\ stats = [id \in StatisticIds |-> {}]
    /\ batch = [id \in StatisticIds |-> <<>>]
    /\ last_read = 0
    /\ sink_log = <<>>
    /\ history = <<>>
    /\ import_result = "none"
    /\ import_calls = <<>>
    /\ today \in Days
    /\ entry_state = "not_loaded"
    /\ pc = "idle"
    /\ step = 1
    /\ data = LinkyData
    /\ calls = <<>>
    /\ primary_failed = TRUE
    /\ outcome = "none"
    /\ coordinator_data = [present |-> FALSE, fields |-> LinkyData]
    /\ last_update_success = TRUE
    /\ client = "none"
    /\ runtime_data = FALSE
    /\ sensors_added = FALSE
    /\ service_registered = FALSE
    /\ flow_step = "none"
    /\ flow_result = "none"
    /\ flow_errors = "none"
    /\ flow_token = "none"
    /\ flow_prms = <<>>
    /\ flow_denied = FALSE
    /\ entries = {}
    /\ sensor_state = [key \in SensorKeys |-> Unwritten]
    /\ serialized = TRUE
    /\ pending = [op \in Writers |-> NotStarted]
    /\ records = [prm \in RecordPrms |-> NoRecord]
    /\ service_handler = NoHandler
    /\ invoked = NotInvoked

----------------------------------------------------------------------------
(* LinkyDataUpdateCoordinator._async_update_data, one step per await *)

\* the five fetchers in the order _async_update_data awaits them, by the field they fill
FetchOrder == <<"daily_consumption", "load_curve", "max_power", "daily_production",
                "production_load_curve">>

\* timedelta(days=7): the trailing window is start = end - 7 days .. end = date.today()
WindowDays == 7

\* the readings the API holds for the window of a cycle run on day end
WindowSeries(end) ==
    MeteringData(Readings(IF end - WindowDays > 1 THEN end - WindowDays ELSE 1, end))

\* every way a fetch of a cycle run on day end can end
CycleFetch(end) ==
    {Returns(None), Returns(WindowSeries(end))} \cup {Raise(e) : e \in Raises \ {"none"}}

\* a faulty variant of NoData that also asks for the two production fields to be absent
NoData_AllFive(d) == \A k \in DOMAIN d : ~ d[k].present

\* "data.daily_consumption is None and data.load_curve is None and data.max_power is None"
NoData(d) ==
    /\ ~ d["daily_consumption"].present
    /\ ~ d["load_curve"].present
    /\ ~ d["max_power"].present

\* a cycle begins: data = LinkyData(), window computed, nothing fetched yet
BeginCycle ==
    /\ pc' = "fetch"
    /\ step' = 1
    /\ data' = LinkyData
    /\ calls' = <<>>
    /\ primary_failed' = TRUE
    /\ outcome' = "running"
    /\ sink_log' = <<>>

\* async_setup_entry after the first refresh returned: the coordinator is stored, the
\* sensor platform is forwarded and the service is registered unless it already is
CompleteSetup ==
    /\ runtime_data' = TRUE
    /\ sensors_added' = TRUE
    /\ service_registered' = (IF ~ service_registered THEN TRUE ELSE service_registered)

\* DataUpdateCoordinator._async_refresh on a cycle that returned result: publish it; a
\* first refresh that returned lets async_setup_entry run to its end
Publish(result) ==
    /\ coordinator_data' = [present |-> TRUE, fields |-> result]
    /\ last_update_success' = TRUE
    /\ entry_state' = IF entry_state = "setting_up" THEN "loaded" ELSE entry_state
    /\ IF entry_state = "setting_up" THEN CompleteSetup ELSE UNCHANGED setupVars

\* a faulty variant of RefreshFailed in which a failed first refresh still loads the record
RefreshFailed_StillLoads ==
    /\ coordinator_data' = coordinator_data
    /\ last_update_success' = FALSE
    /\ entry_state' = IF entry_state = "setting_up" THEN "loaded" ELSE entry_state
    /\ UNCHANGED setupVars

\* DataUpdateCoordinator._async_refresh on a cycle that raised: coordinator.data is kept;
\* async_config_entry_first_refresh then raises ConfigEntryNotReady
RefreshFailed ==
    /\ coordinator_data' = coordinator_data
    /\ last_update_success' = FALSE
    /\ entry_state' = IF entry_state = "setting_up" THEN "setup_retry" ELSE entry_state
    /\ UNCHANGED setupVars

\* a faulty variant of FailCycle in which a failing cycle publishes what it had fetched
FailCycle_PublishesFetched(how) ==
    /\ pc' = "idle"
    /\ outcome' = how
    /\ coordinator_data' = [present |-> TRUE, fields |-> data]
    /\ last_update_success' = FALSE
    /\ entry_state' = IF entry_state = "setting_up" THEN "setup_retry" ELSE entry_state
    /\ UNCHANGED setupVars

\* the cycle raises UpdateFailed (or lets an exception through) with the given outcome
FailCycle(how) ==
    /\ pc' = "idle"
    /\ outcome' = how
    /\ RefreshFailed

\* a faulty variant of FetchEnds in which AuthenticationError is handled like APIError
FetchEnds_AuthCaught(f) ==
    IF f.raises = "Exception" THEN "comm_failed" ELSE "continue"

\* a faulty variant of FetchEnds in which any exception but AuthenticationError is
\* handled like APIError
FetchEnds_AnyErrorSkipped(f) ==
    IF f.raises = "AuthenticationError" THEN "auth_failed" ELSE "continue"

\* how a fetch that ended as f leaves the cycle: the inner try blocks and the outer one
FetchEnds(f) ==
    IF f.raises = "AuthenticationError" THEN "auth_failed"
    ELSE IF f.raises = "Exception" THEN "comm_failed"
    ELSE "continue"

\* the field after its fetch ended as f: assigned only when the fetch returned
FieldAfter(old, f) == IF f.raises = "none" THEN f.value ELSE old

\* a faulty variant of AfterFetch in which the next fetch follows without the delay
AfterFetch_NoDelay(n) == IF n < Len(FetchOrder) THEN "fetch" ELSE "check"

\* where the cycle goes after a fetch that did not abort it
AfterFetch(n) == IF n < Len(FetchOrder) THEN "sleep" ELSE "check"

\* one "await self.client.get_...(start=start, end=end)" and its except clauses
Fetch(f) ==
    /\ pc = "fetch"
    /\ calls' = Append(calls, FetchOrder[step])
    /\ primary_failed' = (primary_failed /\ (step > 3 \/ f.raises = "APIError"))
    /\ data' = [data EXCEPT ![FetchOrder[step]] = FieldAfter(@, f)]
    /\ IF FetchEnds(f) = "continue"
       THEN /\ pc' = AfterFetch(step)
            /\ UNCHANGED <<outcome, coordinator_data, last_update_success, entry_state,
                           setupVars>>
       ELSE FailCycle(FetchEnds(f))
    /\ UNCHANGED <<step, today, client, statsVars, flowVars, auxVars>>

\* one fetch of the running cycle, ending in any of the ways it can
FetchStep == \E f \in CycleFetch(today) : Fetch(f)

\* "await asyncio.sleep(API_REQUEST_DELAY)" between two fetches
Sleep ==
    /\ pc = "sleep"
    /\ pc' = "fetch"
    /\ step' = step + 1
    /\ UNCHANGED <<today, entry_state, data, calls, primary_failed, outcome,
                   coordinator_data, last_update_success, client, setupVars, statsVars,
                   flowVars, auxVars>>

\* the ways the statistics commit can end: done, KeyError (no recorder), any other error
SinkOutcomes == {"ok", "KeyError", "Exception"}

\* which failures of _insert_statistics the cycle swallows: "except KeyError"
Swallowed(sink) == sink = "KeyError"

\* a faulty variant of Finish in which the statistics commit precedes the no-data check
Finish_CommitsBeforeCheck(sink) ==
    /\ pc = "check"
    /\ IF sink = "ok"
       THEN insert_statistics(data["daily_consumption"], data["daily_production"])
       ELSE /\ sink_log' = <<"get_instance">>
            /\ UNCHANGED <<stats, batch, last_read>>
    /\ UNCHANGED <<history, import_result, import_calls>>
    /\ IF NoData(data)
       THEN FailCycle("no_data")
       ELSE IF sink = "ok" \/ Swallowed(sink)
            THEN /\ pc' = "idle"
                 /\ outcome' = "snapshot"
                 /\ Publish(data)
            ELSE FailCycle("unexpected_error")
    /\ UNCHANGED <<today, step, data, calls, primary_failed, client, flowVars, auxVars>>

\* after the fifth fetch: the no-data check, the statistics commit, the return
Finish(sink) ==
    /\ pc = "check"
    /\ IF NoData(data)
       THEN /\ FailCycle("no_data")
            /\ UNCHANGED statsVars
       ELSE /\ IF sink = "ok"
               THEN insert_statistics(data["daily_consumption"], data["daily_production"])
               ELSE /\ sink_log' = <<"get_instance">>
                    /\ UNCHANGED <<stats, batch, last_read>>
            /\ UNCHANGED <<history, import_result, import_calls>>
            /\ IF sink = "ok" \/ Swallowed(sink)
               THEN /\ pc' = "idle"
                    /\ outcome' = "snapshot"
                    /\ Publish(data)
               ELSE FailCycle("unexpected_error")
    /\ UNCHANGED <<today, step, data, calls, primary_failed, client, flowVars, auxVars>>

\* the end of a cycle, with the statistics commit ending in any of the ways it can
FinishStep == \E sink \in SinkOutcomes : Finish(sink)

----------------------------------------------------------------------------
(* async_setup_entry and the scheduled refresh *)

\* LinkyDataUpdateCoordinator(hass, client): a new coordinator has no data yet
NewCoordinator ==
    /\ coordinator_data' = [present |-> FALSE, fields |-> LinkyData]
    /\ last_update_success' = TRUE

\* a faulty variant of SetupEntry in which InvalidTokenError is not raised to the host
SetupEntry_TokenUnchecked(token_valid) ==
    /\ entry_state \in {"not_loaded", "setup_retry", "setup_error"}
    /\ pc = "idle"
    /\ UNCHANGED <<setupVars, flowVars, auxVars>>
    /\ entry_state' = "setting_up"
    /\ client' = "open"
    /\ NewCoordinator
    /\ BeginCycle
    /\ UNCHANGED <<today, stats, batch, last_read, history, import_result, import_calls>>

\* async_setup_entry up to the first refresh: the client is built (InvalidTokenError
\* raises ConfigEntryAuthFailed), a coordinator is built on it and
\* async_config_entry_first_refresh starts a cycle
SetupEntry(token_valid) ==
    /\ entry_state \in {"not_loaded", "setup_retry", "setup_error"}
    /\ pc = "idle"
    /\ UNCHANGED <<setupVars, flowVars, auxVars>>
    /\ IF token_valid
       THEN /\ entry_state' = "setting_up"
            /\ client' = "open"
            /\ NewCoordinator
            /\ BeginCycle
            /\ UNCHANGED <<today, stats, batch, last_read, history, import_result,
                           import_calls>>
       ELSE /\ entry_state' = "setup_error"
            /\ client' = "none"
            /\ UNCHANGED <<today, pc, step, data, calls, primary_failed, outcome,
                           coordinator_data, last_update_success, statsVars>>

\* the host sets the record up, with a token the client accepts or not
SetupStep == \E token_valid \in BOOLEAN : SetupEntry(token_valid)

\* the update_interval timer of a loaded record starts a cycle
ScheduledRefresh ==
    /\ entry_state = "loaded"
    /\ pc = "idle"
    /\ BeginCycle
    /\ UNCHANGED <<client, setupVars, flowVars, auxVars>>
    /\ UNCHANGED <<today, entry_state, coordinator_data, last_update_success, stats,
                   batch, last_read, history, import_result, import_calls>>

\* async_unload_entry with async_unload_platforms returning unload_ok: the client is
\* closed only when the platforms unloaded, and the service is removed when this record
\* is the only one of the domain; the host then drops the record's runtime_data
UnloadEntry(unload_ok) ==
    /\ entry_state = "loaded"
    /\ pc = "idle"
    /\ entry_state' = IF unload_ok THEN "not_loaded" ELSE "failed_unload"
    /\ client' = IF unload_ok THEN "closed" ELSE client
    /\ sensors_added' = IF unload_ok THEN FALSE ELSE sensors_added
    /\ runtime_data' = IF unload_ok THEN FALSE ELSE runtime_data
    /\ service_registered' = IF unload_ok THEN FALSE ELSE service_registered
    /\ UNCHANGED <<today, pc, step, data, calls, primary_failed, outcome,
                   coordinator_data, last_update_success, statsVars, flowVars, auxVars>>

\* the host unloads the record
UnloadStep == \E unload_ok \in BOOLEAN : UnloadEntry(unload_ok)

Next == SetupStep \/ ScheduledRefresh \/ FetchStep \/ Sleep \/ FinishStep \/ UnloadStep

Spec == Init /\ [][Next]_vars

----------------------------------------------------------------------------
(* sensor.py: the six sensors of a loaded record *)

\* a faulty variant of available_fn in which the weekly total looks at load_curve
available_fn_WeekFromLoadCurve(key, d) ==
    IF key = "daily_consumption" THEN d["daily_consumption"].present
    ELSE IF key = "total_consumption_week" THEN d["load_curve"].present
    ELSE IF key = "current_power" THEN d["load_curve"].present
    ELSE IF key = "max_power" THEN d["max_power"].present
    ELSE IF key = "daily_production" THEN d["daily_production"].present
    ELSE d["production_load_curve"].present

\* the available_fn of the description with the given key, applied to a LinkyData
available_fn(key, d) ==
    IF key = "daily_consumption" THEN d["daily_consumption"].present
    ELSE IF key = "total_consumption_week" THEN d["daily_consumption"].present
    ELSE IF key = "current_power" THEN d["load_curve"].present
    ELSE IF key = "max_power" THEN d["max_power"].present
    ELSE IF key = "daily_production" THEN d["daily_production"].present
    ELSE d["production_load_curve"].present

\* LinkySensor.available: CoordinatorEntity.available is coordinator.last_update_success
available(key) ==
    IF ~ last_update_success THEN FALSE
    ELSE IF ~ coordinator_data.present THEN FALSE
    ELSE available_fn(key, coordinator_data.fields)

\* what async_setup_entry raised to the host, as the record's state shows it:
\* ConfigEntryAuthFailed leaves it in setup_error, ConfigEntryNotReady in setup_retry
SetupRaised ==
    IF entry_state = "setup_error" THEN "ConfigEntryAuthFailed"
    ELSE IF entry_state = "setup_retry" THEN "ConfigEntryNotReady"
    ELSE "none"

\* MeteringData.total: the sum of the values of the readings
RECURSIVE Total(_)
Total(readings) ==
    IF Len(readings) = 0 THEN 0 ELSE Head(readings).value + Total(Tail(readings))

\* a faulty variant of LastReadingValue that takes the first reading
LastReadingValue_First(series) ==
    IF series.present /\ Len(series.interval_reading) > 0
    THEN Some(series.interval_reading[1].value)
    ELSE NoValue

\* "series.interval_reading[-1].value if series and series.interval_reading else None"
LastReadingValue(series) ==
    IF series.present /\ Len(series.interval_reading) > 0
    THEN Some(series.interval_reading[Len(series.interval_reading)].value)
    ELSE NoValue

\* the value_fn of the description with the given key, applied to a LinkyData
value_fn(key, d) ==
    IF key = "daily_consumption" THEN LastReadingValue(d["daily_consumption"])
    ELSE IF key = "total_consumption_week"
         THEN IF d["daily_consumption"].present
              THEN Some(Total(d["daily_consumption"].interval_reading))
              ELSE NoValue
    ELSE IF key = "current_power" THEN LastReadingValue(d["load_curve"])
    ELSE IF key = "max_power" THEN LastReadingValue(d["max_power"])
    ELSE IF key = "daily_production" THEN LastReadingValue(d["daily_production"])
    ELSE LastReadingValue(d["production_load_curve"])

\* LinkySensor.native_value
native_value(key) ==
    IF ~ coordinator_data.present THEN NoValue
    ELSE value_fn(key, coordinator_data.fields)

----------------------------------------------------------------------------
(* SpecSensor: the sensors of a coordinator read its snapshot and write their state *)

\* the snapshots a cycle can publish: any series or none per field, the three primary
\* fields not all absent
Snapshots == {d \in [DOMAIN LinkyData -> MeteringOpt] : ~ NoData(d)}

\* a coordinator with its six sensors, holding no data yet or any snapshot, its last
\* refresh having succeeded or not; no sensor has written its state
InitSensor ==
    /\ stats = [id \in StatisticIds |-> {}]
    /\ batch = [id \in StatisticIds |-> <<>>]
    /\ last_read = 0
    /\ sink_log = <<>>
    /\ history = <<>>
    /\ import_result = "none"
    /\ import_calls = <<>>
    /\ today = 1
    /\ entry_state = "loaded"
    /\ pc = "idle"
    /\ step = 1
    /\ data = LinkyData
    /\ calls = <<>>
    /\ primary_failed = TRUE
    /\ outcome = "none"
    /\ coordinator_data \in {[present |-> FALSE, fields |-> LinkyData]}
                             \cup {[present |-> TRUE, fields |-> d] : d \in Snapshots}
    /\ last_update_success \in BOOLEAN
    /\ client = "open"
    /\ runtime_data = TRUE
    /\ sensors_added = TRUE
    /\ service_registered = TRUE
    /\ flow_step = "none"
    /\ flow_result = "none"
    /\ flow_errors = "none"
    /\ flow_token = "none"
    /\ flow_prms = <<>>
    /\ flow_denied = FALSE
    /\ entries = {}
    /\ sensor_state = [key \in SensorKeys |-> Unwritten]
    /\ serialized = TRUE
    /\ pending = [op \in Writers |-> NotStarted]
    /\ records = [prm \in RecordPrms |-> NoRecord]
    /\ service_handler = NoHandler
    /\ invoked = NotInvoked

\* CoordinatorEntity._handle_coordinator_update: each sensor writes its state, the host
\* reading the sensor's available and native_value properties
WriteState ==
    /\ sensor_state' = [key \in SensorKeys |->
                           [written |-> TRUE, available |-> available(key),
                            native_value |-> native_value(key)]]
    /\ UNCHANGED <<statsVars, cycleVars, flowVars, serialized, pending, recordVars>>

NextSensor == WriteState

SpecSensor == InitSensor /\ [][NextSensor]_vars

----------------------------------------------------------------------------
(* SpecMerge: the two statistics operations on the sink, one at a time *)

\* a refresh cycle that passed its checks runs _insert_statistics on what it fetched
IncrementalMerge ==
    \E daily_consumption \in MeteringOpt, daily_production \in MeteringOpt :
        /\ Len(history) < MaxOps
        /\ insert_statistics(daily_consumption, daily_production)
        /\ history' = Append(history, "merge")
        /\ UNCHANGED <<import_result, import_calls, cycleVars, flowVars, auxVars>>

\* call.data of the service: start_date required, end_date optional (SERVICE_..._SCHEMA)
CallData(start_date) == [start_date |-> start_date]

CallDataWithEnd(start_date, end_date) == [start_date |-> start_date, end_date |-> end_date]

\* call.data.get(ATTR_END_DATE, date.today())
EndDate(call_data) ==
    IF "end_date" \in DOMAIN call_data THEN call_data.end_date ELSE today

\* a faulty variant of handle_import_historical_data without the "end_date in the
\* future" validation
handle_import_historical_data_NoFutureCheck(call_data, cfetch, pfetch) ==
    IF call_data.start_date > EndDate(call_data)
    THEN /\ import_result' = "ServiceValidationError"
         /\ import_calls' = <<>>
         /\ sink_log' = <<>>
         /\ batch' = Batches(<<>>, <<>>)
         /\ UNCHANGED <<stats, last_read>>
    ELSE import_statistics(call_data.start_date, EndDate(call_data), cfetch, pfetch)

\* handle_import_historical_data(call): the two validations, then import_statistics
handle_import_historical_data(call_data, cfetch, pfetch) ==
    LET start_date == call_data.start_date
        end_date == EndDate(call_data)
    IN  IF start_date > end_date \/ end_date > today
        THEN /\ import_result' = "ServiceValidationError"
             /\ import_calls' = <<>>
             /\ sink_log' = <<>>
             /\ batch' = Batches(<<>>, <<>>)
             /\ UNCHANGED <<stats, last_read>>
        ELSE import_statistics(start_date, end_date, cfetch, pfetch)

\* the import_historical_data service called for today, the API returning any series
HistoricalImport ==
    \E cfetch \in DailyFetch, pfetch \in DailyFetch :
        /\ Len(history) < MaxOps
        /\ handle_import_historical_data(CallData(today), cfetch, pfetch)
        /\ history' = Append(history, "import")
        /\ UNCHANGED <<cycleVars, flowVars, auxVars>>

NextMerge == IncrementalMerge \/ HistoricalImport

\* no cycle runs in SpecMerge: the day is fixed
InitMerge == Init /\ today = 1

SpecMerge == InitMerge /\ [][NextMerge]_vars

----------------------------------------------------------------------------
(* SpecService: the import_historical_data service called with any dates *)

\* every call.data the schema accepts: a start date, and an end date or none
ServiceCalls ==
    {CallData(s) : s \in Days} \cup {CallDataWithEnd(s, e) : s \in Days, e \in Days}

\* every way a daily fetch for start..end can end: nothing, the readings of the range,
\* or one of the errors
RangeFetch(start, end) ==
    {Returns(None), Returns(MeteringData(Readings(start, end)))}
        \cup {Raise(e) : e \in Raises \ {"none"}}

\* a user calls the service
ImportService ==
    \E call_data \in ServiceCalls :
        \E cfetch \in RangeFetch(call_data.start_date, EndDate(call_data)),
           pfetch \in RangeFetch(call_data.start_date, EndDate(call_data)) :
            /\ Len(history) < MaxOps
            /\ handle_import_historical_data(call_data, cfetch, pfetch)
            /\ history' = Append(history, "import")
            /\ UNCHANGED <<cycleVars, flowVars, auxVars>>

NextService == ImportService

SpecService == Init /\ [][NextService]_vars

----------------------------------------------------------------------------
(* Service claims, checked under SpecService *)

\* the end date a call asks for: the one given, today when none is given
RequestedEnd(call_data) ==
    IF "end_date" \in DOMAIN call_data THEN call_data.end_date ELSE today

\* the step can be the service called with call_data: it was rejected, or its first
\* fetch was for the range of call_data (narrows the calls a step is compared with)
StepCanBeCall(call_data) ==
    \/ import_result' = "ServiceValidationError"
    \/ /\ Len(import_calls') > 0
       /\ import_calls'[1].start = call_data.start_date
       /\ import_calls'[1].end = EndDate(call_data)

\* C11: a call of import_historical_data whose start_date is after its end_date, or whose
\* end_date is after today, ends with the validation error, having issued no fetch and
\* made no call to the statistics sink, the stored statistics being as before; an
\* omitted end_date stands for today; every other call is not rejected and fetches the
\* range start_date..end_date. (For every call: the step has the stated effect, or it
\* is not a step of the service with that call.)
C11_InvalidRangeRejected ==
    [][\A call_data \in ServiceCalls :
         \/ IF \/ call_data.start_date > RequestedEnd(call_data)
               \/ RequestedEnd(call_data) > today
            THEN /\ import_result' = "ServiceValidationError"
                 /\ import_calls' = <<>>
                 /\ sink_log' = <<>>
                 /\ stats' = stats
            ELSE /\ import_result' \in {"done", "raised"}
                 /\ import_calls'[1] = [fetcher |-> "get_daily_consumption",
                                        start |-> call_data.start_date,
                                        end |-> RequestedEnd(call_data)]
         \/ ~ StepCanBeCall(call_data)
         \/ \A cf \in RangeFetch(call_data.start_date, RequestedEnd(call_data)),
               pf \in RangeFetch(call_data.start_date, RequestedEnd(call_data)) :
                 ~ (handle_import_historical_data(call_data, cf, pf)
                      /\ history' = Append(history, "import"))]_vars

\* C11 witness: a call was rejected after an earlier call had stored points
C11_Witness ==
    /\ Len(history) = 2
    /\ import_result = "ServiceValidationError"
    /\ import_calls = <<>>
    /\ sink_log = <<>>
    /\ stats[consumption_statistic_id] # {}

----------------------------------------------------------------------------
(* SpecFlow: LinkyConfigFlow, one setup flow at a time *)

\* the tokens a user can enter
Tokens == {"token_single", "token_multi", "token_other", "token_empty"}

\* AsyncLinkyClient(token=token).prms: the metering points the token gives access to,
\* a list that async_step_user takes as the client reports it, of any length
Prms(token) ==
    IF token = "token_single" THEN << "prm_1" >>
    ELSE IF token = "token_multi" THEN << "prm_1", "prm_2" >>
    ELSE IF token = "token_other" THEN << "prm_2" >>
    ELSE << >>

\* the ways AsyncLinkyClient(token=token) can end at the token step; OSError stands for
\* OSError, RuntimeError and ValueError, Exception for every other exception
UserClientOutcomes == {"ok", "InvalidTokenError", "OSError", "Exception"}

\* the ways AsyncLinkyClient(token=self._token, prm=prm) can end at the selection step
SelectClientOutcomes == {"ok", "PRMAccessError", "OSError", "Exception"}

\* a faulty variant of SkipSelection that never shows the selection step
SkipSelection_Always(prms) == Len(prms) >= 1

\* "if len(self._prms) == 1"
SkipSelection(prms) == Len(prms) = 1

\* a faulty variant of unique_id_configured that never finds a record
unique_id_configured_Never(prm) == FALSE

\* _abort_if_unique_id_configured after async_set_unique_id(prm): a record with this
\* unique id exists
unique_id_configured(prm) == \E e \in entries : e.prm = prm

\* a faulty variant of UserStepError in which InvalidTokenError is reported as "unknown"
UserStepError_TokenUnknown(raised) ==
    IF raised \in {"InvalidTokenError", "OSError"} THEN "unknown" ELSE "raise"

\* the except clauses of async_step_user: errors["base"] for the exception raised, or
\* "raise" when no clause catches it
UserStepError(raised) ==
    IF raised = "InvalidTokenError" THEN "invalid_token"
    ELSE IF raised = "OSError" THEN "unknown"
    ELSE "raise"

\* a faulty variant of SelectStepError in which PRMAccessError is not caught
SelectStepError_AccessRaises(raised) ==
    IF raised = "OSError" THEN "unknown" ELSE "raise"

\* the except clauses of async_step_select_prm
SelectStepError(raised) ==
    IF raised = "PRMAccessError" THEN "prm_access_denied"
    ELSE IF raised = "OSError" THEN "unknown"
    ELSE "raise"

\* self.async_show_form(step_id=step_id, errors=errors): the flow waits at step_id
async_show_form(step_id, errors) ==
    /\ flow_step' = step_id
    /\ flow_result' = "form"
    /\ flow_errors' = errors
    /\ entries' = entries

\* a step lets an exception through: the flow manager passes it to the caller and the
\* flow stays in progress at the step it was at
StepRaises ==
    /\ flow_result' = "raised"
    /\ UNCHANGED <<flow_step, flow_errors, entries>>

\* _create_entry(prm) with self._token = token: abort when the PRM is configured, else
\* create the record; either way the flow is finished
create_entry(token, prm) ==
    /\ flow_step' = "none"
    /\ flow_errors' = "none"
    /\ IF unique_id_configured(prm)
       THEN /\ flow_result' = "abort_already_configured"
            /\ entries' = entries
       ELSE /\ flow_result' = "create_entry"
            /\ entries' = entries \cup {[token |-> token, prm |-> prm]}

\* the flow manager starts a flow: async_step_user(None) on a new LinkyConfigFlow
FlowInit ==
    /\ flow_step = "none"
    /\ flow_token' = "none"
    /\ flow_prms' = <<>>
    /\ flow_denied' = FALSE
    /\ async_show_form("user", "none")
    /\ UNCHANGED <<statsVars, cycleVars, auxVars>>

\* async_step_user(user_input) with user_input[CONF_TOKEN] = token and the client
\* construction ending as raised
async_step_user(token, raised) ==
    /\ flow_step = "user"
    /\ flow_denied' = flow_denied
    /\ IF raised = "ok"
       THEN /\ flow_token' = token
            /\ flow_prms' = Prms(token)
            /\ IF SkipSelection(Prms(token))
               THEN create_entry(token, Prms(token)[1])
               ELSE async_show_form("select_prm", "none")
       ELSE /\ UNCHANGED <<flow_token, flow_prms>>
            /\ IF UserStepError(raised) = "raise"
               THEN StepRaises
               ELSE async_show_form("user", UserStepError(raised))
    /\ UNCHANGED <<statsVars, cycleVars, auxVars>>

\* the user submits the token form
StepUser == \E token \in Tokens, raised \in UserClientOutcomes : async_step_user(token, raised)

\* async_step_select_prm(user_input) with user_input[CONF_PRM] = prm and the scoped
\* client construction ending as raised
async_step_select_prm(prm, raised) ==
    /\ flow_step = "select_prm"
    /\ UNCHANGED <<flow_token, flow_prms>>
    /\ IF flow_token = "none"
       THEN /\ async_show_form("select_prm", "unknown")
            /\ flow_denied' = flow_denied
       ELSE IF raised = "ok"
            THEN /\ create_entry(flow_token, prm)
                 /\ flow_denied' = flow_denied
            ELSE /\ flow_denied' = (flow_denied \/ raised = "PRMAccessError")
                 /\ IF SelectStepError(raised) = "raise"
                    THEN StepRaises
                    ELSE async_show_form("select_prm", SelectStepError(raised))
    /\ UNCHANGED <<statsVars, cycleVars, auxVars>>

\* the user submits the selection form: the selector offers the PRMs of self._prms
StepSelectPrm ==
    \E i \in 1 .. Len(flow_prms), raised \in SelectClientOutcomes :
        async_step_select_prm(flow_prms[i], raised)

NextFlow == FlowInit \/ StepUser \/ StepSelectPrm

SpecFlow == Init /\ [][NextFlow]_vars

----------------------------------------------------------------------------
(* SpecInterleave: one incremental merge and one historical import of the same       *)
(* record, each split at its awaits into the get_last_statistics reads and the rest  *)

\* a faulty variant of StartAllowed in which the host never holds an operation back
StartAllowed_Always(op) == TRUE

\* whether the host lets op start: a host that serializes the operations starts none
\* while the other is between its reads and its writes
StartAllowed(op) ==
    serialized => \A other \in Writers \ {op} : pending[other].pc # "read"

\* _insert_statistics up to the return of its get_last_statistics calls: what it keeps
\* in last_stats_time, consumption_sum and production_sum
MergeRead ==
    /\ pending["merge"].pc = "idle"
    /\ StartAllowed("merge")
    /\ pending' = [pending EXCEPT !["merge"] =
                      [pc |-> "read", seen |-> stats,
                       last_stats_time |-> last_stats_time,
                       consumption_sum |-> consumption_sum,
                       production_sum |-> production_sum]]
    /\ sink_log' = sink_log \o MergeReads
    /\ UNCHANGED <<stats, batch, last_read, history, import_result, import_calls,
                   cycleVars, flowVars, sensor_state, serialized, recordVars>>

\* the rest of _insert_statistics: the two loops over the series it was given, run
\* against what it had read, and the writes
MergeAppend(daily_consumption, daily_production) ==
    LET local == pending["merge"]
        cs == IF daily_consumption.present /\ Len(daily_consumption.interval_reading) > 0
              THEN MergeLoop(daily_consumption.interval_reading, 1,
                             local.last_stats_time, local.consumption_sum)
              ELSE <<>>
        ps == IF daily_production.present /\ Len(daily_production.interval_reading) > 0
              THEN MergeLoop(daily_production.interval_reading, 1,
                             local.last_stats_time, local.production_sum)
              ELSE <<>>
    IN  /\ local.pc = "read"
        /\ stats' = Submit(cs, ps)
        /\ batch' = Batches(cs, ps)
        /\ last_read' = local.last_stats_time
        /\ sink_log' = SinkCalls(sink_log, cs, ps)
        /\ history' = Append(history, "merge")
        /\ pending' = [pending EXCEPT !["merge"] =
                          [pc |-> "done", seen |-> local.seen, found |-> stats]]
        /\ UNCHANGED <<import_result, import_calls, cycleVars, flowVars, sensor_state,
                       serialized, recordVars>>

\* import_statistics up to the return of its two get_last_statistics calls
ImportRead ==
    /\ pending["import"].pc = "idle"
    /\ StartAllowed("import")
    /\ pending' = [pending EXCEPT !["import"] =
                      [pc |-> "read", seen |-> stats,
                       consumption_sum |-> import_consumption_sum,
                       production_sum |-> import_production_sum]]
    /\ sink_log' = sink_log \o <<"get_last_consumption", "get_last_production">>
    /\ UNCHANGED <<stats, batch, last_read, history, import_result, import_calls,
                   cycleVars, flowVars, sensor_state, serialized, recordVars>>

\* the rest of import_statistics: the two fetches, ending as cfetch and pfetch, the
\* loops run against the sums it had read, and the writes
ImportAppend(cfetch, pfetch) ==
    LET local == pending["import"]
        cs == ImportPoints(cfetch, local.consumption_sum)
        ps == ImportPoints(pfetch, local.production_sum)
        aborted == ImportAborts(cfetch) \/ ImportAborts(pfetch)
    IN  /\ local.pc = "read"
        /\ import_calls' = ImportCalls(today, today, cfetch)
        /\ import_result' = IF aborted THEN "raised" ELSE "done"
        /\ stats' = IF aborted THEN stats ELSE Submit(cs, ps)
        /\ batch' = IF aborted THEN Batches(<<>>, <<>>) ELSE Batches(cs, ps)
        /\ sink_log' = IF aborted THEN sink_log ELSE SinkCalls(sink_log, cs, ps)
        /\ history' = Append(history, "import")
        /\ pending' = [pending EXCEPT !["import"] =
                          [pc |-> "done", seen |-> local.seen, found |-> stats]]
        /\ UNCHANGED <<last_read, cycleVars, flowVars, sensor_state, serialized, recordVars>>

\* the points an earlier merge stored: nothing, or the consumption point of day 1
StoredBefore ==
    {[id \in StatisticIds |-> {}],
     [id \in StatisticIds |->
        IF id = consumption_statistic_id
        THEN {[start |-> StatTime(1), state |-> ReadingValue(1), sum |-> ReadingValue(1)]}
        ELSE {}]}

\* a loaded record whose host serializes its statistics operations or does not, before a
\* refresh cycle's merge and a historical import of the same day
InitInterleave ==
    /\ stats \in StoredBefore
    /\ batch = [id \in StatisticIds |-> <<>>]
    /\ last_read = 0
    /\ sink_log = <<>>
    /\ history = <<>>
    /\ import_result = "none"
    /\ import_calls = <<>>
    /\ today = 1
    /\ entry_state = "loaded"
    /\ pc = "idle"
    /\ step = 1
    /\ data = LinkyData
    /\ calls = <<>>
    /\ primary_failed = TRUE
    /\ outcome = "none"
    /\ coordinator_data = [present |-> FALSE, fields |-> LinkyData]
    /\ last_update_success = TRUE
    /\ client = "open"
    /\ runtime_data = TRUE
    /\ sensors_added = TRUE
    /\ service_registered = TRUE
    /\ flow_step = "none"
    /\ flow_result = "none"
    /\ flow_errors = "none"
    /\ flow_token = "none"
    /\ flow_prms = <<>>
    /\ flow_denied = FALSE
    /\ entries = {}
    /\ sensor_state = [key \in SensorKeys |-> Unwritten]
    /\ serialized \in BOOLEAN
    /\ pending = [op \in Writers |-> NotStarted]
    /\ records = [prm \in RecordPrms |-> NoRecord]
    /\ service_handler = NoHandler
    /\ invoked = NotInvoked

NextInterleave ==
    \/ MergeRead
    \/ \E dc \in MeteringOpt, dp \in MeteringOpt : MergeAppend(dc, dp)
    \/ ImportRead
    \/ \E cfetch \in DailyFetch, pfetch \in DailyFetch : ImportAppend(cfetch, pfetch)

SpecInterleave == InitInterleave /\ [][NextInterleave]_vars

----------------------------------------------------------------------------
(* SpecRecords: several records of the domain are configured, set up, unloaded and *)
(* removed, and the import_historical_data service is called                       *)

\* the variables SpecRecords leaves alone
recordFrame == <<statsVars, today, entry_state, pc, step, data, calls, primary_failed,
                 outcome, coordinator_data, last_update_success, client, runtime_data,
                 sensors_added, flow_step, flow_result, flow_errors, flow_token,
                 flow_prms, flow_denied, sensor_state, serialized, pending>>

\* the ways async_setup_entry can end: it returns True, the client refuses the token,
\* or the first refresh fails
SetupOutcomes == {"ok", "InvalidTokenError", "refresh_failed"}

\* the setup flow created a record for prm; the host has not set it up yet
AddRecord(prm) ==
    /\ ~ unique_id_configured(prm)
    /\ entries' = entries \cup {[token |-> "token_multi", prm |-> prm]}
    /\ records' = [records EXCEPT ![prm] = [state |-> "not_loaded", client |-> "none"]]
    /\ UNCHANGED <<service_registered, service_handler, invoked, recordFrame>>

\* async_setup_entry of the record of prm ending as how: a client and a coordinator are
\* made anew unless the token is refused; on success the handler, which holds this
\* coordinator, is registered unless the service already exists, and then the registered
\* handler goes on holding the coordinator it was defined with
SetupRecord(prm, how) ==
    /\ records[prm].state \in {"not_loaded", "setup_retry", "setup_error"}
    /\ records' = [records EXCEPT ![prm] =
                      IF how = "ok" THEN [state |-> "loaded", client |-> "open"]
                      ELSE IF how = "refresh_failed"
                           THEN [state |-> "setup_retry", client |-> "open"]
                           ELSE [state |-> "setup_error", client |-> @.client]]
    /\ IF how = "ok" /\ ~ service_registered
       THEN /\ service_registered' = TRUE
            /\ service_handler' = [prm |-> prm, client |-> "open", current |-> TRUE]
       ELSE /\ service_handler' = IF how = "ok" /\ service_handler.prm = prm
                                  THEN [service_handler EXCEPT !.current = FALSE]
                                  ELSE service_handler
            /\ UNCHANGED service_registered
    /\ UNCHANGED <<entries, invoked, recordFrame>>

\* async_unload_entry of the record of prm: when the platforms unloaded the client of
\* the record's coordinator is closed and the service is removed if the domain has
\* exactly one record
UnloadRecord(prm, unload_ok) ==
    /\ records[prm].state = "loaded"
    /\ records' = [records EXCEPT ![prm] =
                      IF unload_ok THEN [state |-> "not_loaded", client |-> "closed"]
                      ELSE [state |-> "failed_unload", client |-> @.client]]
    /\ IF unload_ok /\ Cardinality(entries) = 1
       THEN /\ service_registered' = FALSE
            /\ service_handler' = NoHandler
       ELSE /\ service_handler' = IF unload_ok /\ service_handler.prm = prm
                                     /\ service_handler.current
                                  THEN [service_handler EXCEPT !.client = "closed"]
                                  ELSE service_handler
            /\ UNCHANGED service_registered
    /\ UNCHANGED <<entries, invoked, recordFrame>>

\* the host removes a record that is not loaded
RemoveRecord(prm) ==
    /\ records[prm].state \in {"not_loaded", "setup_retry", "setup_error"}
    /\ entries' = {e \in entries : e.prm # prm}
    /\ records' = [records EXCEPT ![prm] = NoRecord]
    /\ UNCHANGED <<service_registered, service_handler, invoked, recordFrame>>

\* a call of the registered service: handle_import_historical_data runs
\* coordinator.import_statistics on the coordinator it was defined with
InvokeService ==
    /\ service_registered
    /\ invoked' = [prm |-> service_handler.prm,
                   state |-> records[service_handler.prm].state,
                   client |-> service_handler.client,
                   current |-> service_handler.current]
    /\ UNCHANGED <<entries, records, service_registered, service_handler, recordFrame>>

NextRecords ==
    \/ \E prm \in RecordPrms : AddRecord(prm)
    \/ \E prm \in RecordPrms, how \in SetupOutcomes : SetupRecord(prm, how)
    \/ \E prm \in RecordPrms, unload_ok \in BOOLEAN : UnloadRecord(prm, unload_ok)
    \/ \E prm \in RecordPrms : RemoveRecord(prm)
    \/ InvokeService

SpecRecords == Init /\ [][NextRecords]_vars

----------------------------------------------------------------------------
(* Statistics claims, checked under SpecMerge *)

\* the sum of the daily values (states) of a set of stored points
RECURSIVE SumOfStates(_)
SumOfStates(points) ==
    IF points = {} THEN 0
    ELSE LET p == CHOOSE x \in points : TRUE
         IN  p.state + SumOfStates(points \ {p})

\* the point of a non-empty set with the latest start
Latest(points) == CHOOSE p \in points : \A q \in points : q.start <= p.start

\* the series an incremental merge was given for a statistic id
SeriesOf(id, daily_consumption, daily_production) ==
    IF id = consumption_statistic_id THEN daily_consumption ELSE daily_production

\* a step of SpecMerge that is _insert_statistics(dc, dp)
MergeStep(dc, dp) == insert_statistics(dc, dp) /\ history' = Append(history, "merge")

\* a step of SpecMerge that is import_statistics with its fetches ending as cf and pf
ImportStep(cf, pf) ==
    /\ handle_import_historical_data(CallData(today), cf, pf)
    /\ history' = Append(history, "import")

\* some day of the fetched series is already stored for id
Overlaps(id, series) ==
    \E i \in 1 .. Len(series.interval_reading) :
        \E p \in stats[id] : p.start = 24 * series.interval_reading[i].date

\* C1: when a second incremental merge follows a first one and the series fetched for a
\* statistic id contains a day the first merge stored, the latest stored running sum of
\* that id afterwards is the sum of the stored days' values, each counted once.
C1_OverlapCountedOnce ==
    [][\A dc \in MeteringOpt, dp \in MeteringOpt :
         (history = <<"merge">> /\ MergeStep(dc, dp))
            => \A id \in StatisticIds :
                 Overlaps(id, SeriesOf(id, dc, dp))
                    => Latest(stats'[id]).sum = SumOfStates(stats'[id])]_vars

\* C2: every stored point's running sum is the sum of the daily values of the stored
\* points of its series from the earliest stored day through that point's day.
C2_RunningSumIsPrefixSum ==
    \A id \in StatisticIds :
        \A p \in stats[id] :
            p.sum = SumOfStates({q \in stats[id] : q.start <= p.start})

\* C3: every point an operation submits for a series starts strictly after the last
\* point already stored for that series.
C3_SubmittedAfterLastStored ==
    [][history' # history
         => \A id \in StatisticIds :
              stats[id] # {}
                 => \A i \in 1 .. Len(batch'[id]) :
                      batch'[id][i].start > Latest(stats[id]).start]_vars

\* the readings whose day starts strictly after t, in order
RECURSIVE ReadingsAfter(_, _)
ReadingsAfter(readings, t) ==
    IF Len(readings) = 0 THEN <<>>
    ELSE IF 24 * Head(readings).date > t
         THEN <<Head(readings)>> \o ReadingsAfter(Tail(readings), t)
         ELSE ReadingsAfter(Tail(readings), t)

\* the sum of the values of the first k readings
RECURSIVE PrefixValue(_, _)
PrefixValue(readings, k) ==
    IF k = 0 THEN 0 ELSE readings[k].value + PrefixValue(readings, k - 1)

\* one point per reading, in order: state the reading's value, sum s plus the prefix sum
PointsFrom(readings, s) ==
    [k \in 1 .. Len(readings) |->
        [start |-> 24 * readings[k].date,
         state |-> readings[k].value,
         sum |-> s + PrefixValue(readings, k)]]

\* C9: with a prior consumption point (timestamp t, sum s) stored, an incremental merge
\* emits points exactly for the fetched readings that start strictly after t, in order,
\* the k-th with the reading's value as state and s plus the first k emitted values as sum.
C9_MergeContinuesFromPrior ==
    [][\A dc \in Series, dp \in MeteringOpt :
         (stats[consumption_statistic_id] # {} /\ MergeStep(dc, dp))
            => batch'[consumption_statistic_id]
                 = PointsFrom(ReadingsAfter(dc.interval_reading,
                                            Latest(stats[consumption_statistic_id]).start),
                              Latest(stats[consumption_statistic_id]).sum)]_vars

\* the batch import_statistics hands over for id is the one it builds from fetch
\* (narrows the fetches an import step can have been run with)
BatchBuiltFrom(id, fetch) ==
    batch'[id] = ImportPoints(fetch, IF id = consumption_statistic_id
                                     THEN import_consumption_sum
                                     ELSE import_production_sum)

\* C10: a historical import that completes, for a series with no prior stored point,
\* emits exactly one point per fetched reading, in order, with the reading's value as
\* state and the prefix sum of the values from 0 as sum, and these are what is stored.
C10_ImportPrefixSums ==
    [][(history' = Append(history, "import") /\ import_result' = "done")
          => \A cf \in {f \in DailyFetch : BatchBuiltFrom(consumption_statistic_id, f)} :
               \A pf \in {f \in DailyFetch : BatchBuiltFrom(production_statistic_id, f)} :
                 ImportStep(cf, pf)
                    => /\ (stats[consumption_statistic_id] = {} /\ cf.raises = "none")
                            => /\ batch'[consumption_statistic_id]
                                    = PointsFrom(cf.value.interval_reading, 0)
                               /\ stats'[consumption_statistic_id]
                                    = {batch'[consumption_statistic_id][k] :
                                         k \in 1 .. Len(cf.value.interval_reading)}
                       /\ (stats[production_statistic_id] = {} /\ pf.raises = "none")
                            => /\ batch'[production_statistic_id]
                                    = PointsFrom(pf.value.interval_reading, 0)
                               /\ stats'[production_statistic_id]
                                    = {batch'[production_statistic_id][k] :
                                         k \in 1 .. Len(pf.value.interval_reading)}]_vars

\* C10 witness: the first operation was an import that completed and emitted a point
\* for each of two or more readings
C10_Witness ==
    /\ history = <<"import">>
    /\ import_result = "done"
    /\ Len(batch[consumption_statistic_id]) >= 2
    /\ batch[consumption_statistic_id][2].sum
         = batch[consumption_statistic_id][1].state + batch[consumption_statistic_id][2].state

----------------------------------------------------------------------------
(* Refresh-cycle claims, checked under Spec *)

\* none of daily_consumption, load_curve, max_power is present in d
AllThreeAbsent(d) ==
    \A k \in {"daily_consumption", "load_curve", "max_power"} : ~ d[k].present

\* the step ends the running cycle
CycleEnds == pc # "idle" /\ pc' = "idle"

\* C4: a fetch that raises APIError leaves its field absent and every other field as it
\* was, and the cycle goes on to the next fetch in the order (to the final check after
\* the fifth); a cycle that reaches the final check with at least one of
\* daily_consumption, load_curve, max_power obtained returns its snapshot.
C4_APIErrorLeavesFieldAbsent ==
    [][/\ \A f \in CycleFetch(today) :
            (Fetch(f) /\ f.raises = "APIError")
               => /\ ~ data'[FetchOrder[step]].present
                  /\ \A k \in DOMAIN data : k # FetchOrder[step] => data'[k] = data[k]
                  /\ pc' = IF step < 5 THEN "sleep" ELSE "check"
                  /\ outcome' = "running"
       /\ (pc = "sleep" => pc' = "fetch" /\ step' = step + 1)
       /\ (pc = "check" /\ ~ AllThreeAbsent(data))
             => /\ outcome' = "snapshot"
                /\ coordinator_data' = [present |-> TRUE, fields |-> data]]_vars

\* C5: a fetch that raises AuthenticationError ends the cycle at once: the cycle's calls
\* stop at that fetch, the published snapshot is left as it was, and the cycle's outcome
\* is the authentication failure, not the no-data failure; the calls of an ended cycle
\* do not grow.
C5_AuthErrorAbortsCycle ==
    [][/\ \A f \in CycleFetch(today) :
            (Fetch(f) /\ f.raises = "AuthenticationError")
               => /\ pc' = "idle"
                  /\ outcome' = "auth_failed"
                  /\ outcome' # "no_data"
                  /\ calls' = Append(calls, FetchOrder[step])
                  /\ coordinator_data' = coordinator_data
                  /\ last_update_success' = FALSE
                  /\ stats' = stats
       /\ (pc = "idle" /\ pc' = "idle" => calls' = calls)
       /\ (pc = "idle" /\ pc' # "idle" => calls' = <<>>)]_vars

\* C5 witness: the second fetch raised AuthenticationError after the first had returned
\* a series; three fetches were never issued
C5_Witness ==
    /\ outcome = "auth_failed"
    /\ pc = "idle"
    /\ calls = <<"daily_consumption", "load_curve">>
    /\ data["daily_consumption"].present

\* C6 as stated: a cycle whose first three fetches all raised APIError ends, whatever
\* the two production fetches do, with the no-data failure and nothing written.
C6_NoDataWhateverProduction ==
    [][(CycleEnds /\ primary_failed' /\ Len(calls') >= 3)
          => /\ outcome' = "no_data"
             /\ stats' = stats
             /\ sink_log' = <<>>]_vars

\* C6 amended: a cycle whose first three fetches all raised APIError never returns a
\* snapshot and writes nothing; it ends with the no-data failure when it reaches the
\* final check (both production fetches returned or raised APIError), and with the
\* authentication or communication failure when a production fetch aborts it.
C6_NoDataUnlessProductionAborts ==
    [][/\ (pc = "check" /\ primary_failed)
             => /\ outcome' = "no_data"
                /\ pc' = "idle"
                /\ stats' = stats
                /\ sink_log' = <<>>
                /\ coordinator_data' = coordinator_data
       /\ (CycleEnds /\ primary_failed' /\ Len(calls') >= 3)
             => /\ outcome' \in {"no_data", "auth_failed", "comm_failed"}
                /\ (outcome' = "no_data" <=> pc = "check")
                /\ stats' = stats
                /\ sink_log' = <<>>]_vars

\* C6 witness: the no-data failure of a cycle whose three first fetches raised APIError
\* and whose daily-production fetch returned a series
C6_Witness ==
    /\ outcome = "no_data"
    /\ pc = "idle"
    /\ primary_failed
    /\ Len(calls) = 5
    /\ data["daily_production"].present
    /\ entry_state = "loaded"

\* C7: a cycle returns a snapshot only with at least one of daily_consumption,
\* load_curve, max_power present; a cycle that reaches the final check with all three
\* absent fails with the no-data failure, publishes nothing and writes nothing, whatever
\* the production fields hold, and when it is the first refresh of a setup, the setup
\* fails (the record is left to be retried, not loaded).
C7_SnapshotHasPrimaryField ==
    [][/\ (CycleEnds /\ outcome' = "snapshot")
             => /\ ~ AllThreeAbsent(data')
                /\ coordinator_data' = [present |-> TRUE, fields |-> data']
       /\ (pc = "check" /\ AllThreeAbsent(data))
             => /\ outcome' = "no_data"
                /\ coordinator_data' = coordinator_data
                /\ last_update_success' = FALSE
                /\ stats' = stats
                /\ (entry_state = "setting_up" => entry_state' = "setup_retry")]_vars

\* C7 witness: the first refresh of a setup obtained daily_production only, ended with
\* the no-data failure and left the record not loaded
C7_Witness ==
    /\ entry_state = "setup_retry"
    /\ outcome = "no_data"
    /\ data["daily_production"].present
    /\ ~ coordinator_data.present

\* C8: when the cycle passed the no-data check and the statistics commit raises, for
\* whatever reason, the cycle still returns its snapshot.
C8_CommitFailureSwallowed ==
    [][(pc = "check" /\ ~ AllThreeAbsent(data) /\ sink_log' = <<"get_instance">>)
          => /\ outcome' = "snapshot"
             /\ last_update_success' = TRUE
             /\ coordinator_data' = [present |-> TRUE, fields |-> data]]_vars

----------------------------------------------------------------------------
(* Setup-flow claims, checked under SpecFlow *)

\* some record has prm as its metering point
Configured(prm) == \E e \in entries : e.prm = prm

\* the record {token, prm}
Record(token, prm) == [token |-> token, prm |-> prm]

\* C12: submitting a token that has exactly one PRM (not yet configured) creates the
\* record {token, that PRM} in that step, without the selection step; submitting a token
\* that has more than one PRM shows the select_prm form and creates nothing; while the
\* flow is at select_prm a record is created only by a selection, and the record holds
\* the selected PRM and the token that was entered at the token step.
C12_SingleCreatesMultiSelects ==
    [][/\ \A token \in Tokens :
            async_step_user(token, "ok")
               => /\ (Len(Prms(token)) = 1 /\ ~ Configured(Prms(token)[1]))
                       => /\ entries' = entries \cup {Record(token, Prms(token)[1])}
                          /\ flow_result' = "create_entry"
                          /\ flow_step' = "none"
                  /\ Len(Prms(token)) > 1
                       => /\ flow_step' = "select_prm"
                          /\ flow_result' = "form"
                          /\ entries' = entries
                          /\ flow_token' = token
       /\ (flow_step = "select_prm" /\ entries' # entries)
             => \E i \in 1 .. Len(flow_prms) :
                  /\ async_step_select_prm(flow_prms[i], "ok")
                  /\ entries' = entries \cup {Record(flow_token, flow_prms[i])}
                  /\ flow_result' = "create_entry"]_vars

\* C12 witness: a record made by the selection step holds the second PRM of the
\* two-PRM token, beside a record made at once from the one-PRM token
C12_Witness ==
    /\ Record("token_multi", "prm_2") \in entries
    /\ Record("token_single", "prm_1") \in entries
    /\ flow_step = "none"

\* C13: no two records have the same PRM, and a flow step that reaches record creation
\* for a PRM already configured ends the flow with "already_configured" and leaves the
\* records as they were.
C13_UniquePrm ==
    /\ [](\A e1 \in entries, e2 \in entries : e1.prm = e2.prm => e1 = e2)
    /\ [][/\ \A token \in Tokens :
               (async_step_user(token, "ok") /\ Len(Prms(token)) = 1
                  /\ Configured(Prms(token)[1]))
                  => /\ flow_result' = "abort_already_configured"
                     /\ flow_step' = "none"
                     /\ entries' = entries
          /\ \A i \in 1 .. Len(flow_prms) :
               (async_step_select_prm(flow_prms[i], "ok") /\ Configured(flow_prms[i]))
                  => /\ flow_result' = "abort_already_configured"
                     /\ flow_step' = "none"
                     /\ entries' = entries]_vars

\* C13 witness: a flow for the two-PRM token was aborted at the selection step because
\* the selected PRM had been configured with another token
C13_Witness ==
    /\ flow_result = "abort_already_configured"
    /\ flow_token = "token_multi"
    /\ entries = {Record("token_single", "prm_1")}

\* C14: when the client construction at the token step raises InvalidTokenError, the
\* flow stays at the user step, shows the form with error invalid_token, and the records
\* are as before.
C14_InvalidTokenReprompts ==
    [][\A token \in Tokens :
         async_step_user(token, "InvalidTokenError")
            => /\ flow_step' = "user"
               /\ flow_result' = "form"
               /\ flow_errors' = "invalid_token"
               /\ entries' = entries]_vars

\* C14 witness: the user form is shown with the invalid_token error
C14_Witness ==
    /\ flow_step = "user"
    /\ flow_result = "form"
    /\ flow_errors = "invalid_token"

\* C15: when the client construction at the token step raises anything but
\* InvalidTokenError, the step returns the user form with error unknown and the records
\* are as before.
C15_OtherErrorReprompts ==
    [][\A token \in Tokens, raised \in UserClientOutcomes \ {"ok", "InvalidTokenError"} :
         async_step_user(token, raised)
            => /\ flow_step' = "user"
               /\ flow_result' = "form"
               /\ flow_errors' = "unknown"
               /\ entries' = entries]_vars

\* C16: when the scoped client construction at the selection step raises
\* PRMAccessError, the flow stays at select_prm, shows the form with error
\* prm_access_denied and the same PRMs, and the records are as before; a selection made
\* after that in the same flow, accepted by the client for a PRM not yet configured,
\* creates the record.
C16_AccessDeniedReprompts ==
    [][\A i \in 1 .. Len(flow_prms) :
         /\ async_step_select_prm(flow_prms[i], "PRMAccessError")
               => /\ flow_step' = "select_prm"
                  /\ flow_result' = "form"
                  /\ flow_errors' = "prm_access_denied"
                  /\ flow_prms' = flow_prms
                  /\ flow_token' = flow_token
                  /\ entries' = entries
         /\ (flow_errors = "prm_access_denied" /\ ~ Configured(flow_prms[i])
               /\ async_step_select_prm(flow_prms[i], "ok"))
               => /\ flow_result' = "create_entry"
                  /\ entries' = entries \cup {Record(flow_token, flow_prms[i])}]_vars

\* C16 witness: a flow in which a selection had been refused created its record
C16_Witness ==
    /\ flow_denied
    /\ flow_result = "create_entry"
    /\ flow_step = "none"
    /\ \E e \in entries : e.token = flow_token

----------------------------------------------------------------------------
(* Sensor, snapshot and lifecycle claims, checked under Spec *)

\* the field of the snapshot a sensor is computed from
Backing(key) ==
    IF key \in {"daily_consumption", "total_consumption_week"} THEN "daily_consumption"
    ELSE IF key = "current_power" THEN "load_curve"
    ELSE IF key = "max_power" THEN "max_power"
    ELSE IF key = "daily_production" THEN "daily_production"
    ELSE "production_load_curve"

\* the sensor's backing series is present in the coordinator's current snapshot
SeriesPresent(key) ==
    coordinator_data.present /\ coordinator_data.fields[Backing(key)].present

\* the record's sensors exist
SensorsExist == entry_state \in {"loaded", "failed_unload"}

\* C17 as stated: each sensor of a loaded record is available exactly when its backing
\* series is present in the current snapshot.
C17_AvailableIffSeriesPresent ==
    SensorsExist => \A key \in SensorKeys : available(key) <=> SeriesPresent(key)

\* C17 amended: each sensor of a loaded record is available exactly when the last
\* refresh succeeded and its backing series is present in the current snapshot.
C17_AvailableIffFreshAndPresent ==
    SensorsExist
       => \A key \in SensorKeys :
            available(key) <=> (last_update_success /\ SeriesPresent(key))

\* C17 witness: after a refresh that failed following a successful one, the snapshot
\* still holds daily_consumption and the sensor is unavailable
C17_Witness ==
    /\ entry_state = "loaded"
    /\ pc = "idle"
    /\ ~ last_update_success
    /\ SeriesPresent("daily_consumption")
    /\ ~ available("daily_consumption")
    /\ available_fn("total_consumption_week", coordinator_data.fields)

\* C18: the published snapshot changes only when a cycle returns, and then to the whole
\* result of that cycle (or when a setup builds a new coordinator, which has none); a
\* cycle that ends in a failure leaves the published snapshot as it was.
C18_SnapshotReplacedWhole ==
    [][/\ coordinator_data' # coordinator_data
             => \/ /\ pc = "check"
                   /\ pc' = "idle"
                   /\ outcome' = "snapshot"
                   /\ coordinator_data' = [present |-> TRUE, fields |-> data]
                \/ /\ entry_state' = "setting_up"
                   /\ entry_state # "setting_up"
                   /\ ~ coordinator_data'.present
       /\ (CycleEnds /\ outcome' # "snapshot")
             => coordinator_data' = coordinator_data]_vars

\* C18 witness: a cycle of a loaded record was aborted by an authentication error after
\* it had fetched daily_consumption, and the published snapshot is still the earlier
\* one, without that field
C18_Witness ==
    /\ entry_state = "loaded"
    /\ outcome = "auth_failed"
    /\ data["daily_consumption"].present
    /\ coordinator_data.present
    /\ ~ coordinator_data.fields["daily_consumption"].present

\* C19: whenever the record is not loaded and not being set up, the client its last
\* setup constructed is not open.
C19_ClientClosedOnce ==
    entry_state \in {"not_loaded", "setup_retry", "setup_error"} => client # "open"

\* C20: when a fetch of the first refresh of a setup raises AuthenticationError, the
\* setup raises ConfigEntryAuthFailed.
C20_AuthErrorAsksReauth ==
    [][\A f \in CycleFetch(today) :
         (entry_state = "setting_up" /\ Fetch(f) /\ f.raises = "AuthenticationError")
            => SetupRaised' = "ConfigEntryAuthFailed"]_vars

----------------------------------------------------------------------------
(* Claims C21..C30 *)

\* C21: a setup whose client construction raises InvalidTokenError fails with the record
\* in setup-error state (ConfigEntryAuthFailed): no refresh cycle is started, no
\* coordinator is stored as runtime data, no sensor exists and the import service is not
\* registered by that setup.
C21_InvalidTokenFailsSetup ==
    [][SetupEntry(FALSE)
         => /\ entry_state' = "setup_error"
            /\ SetupRaised' = "ConfigEntryAuthFailed"
            /\ pc' = "idle" /\ calls' = calls /\ outcome' = outcome
            /\ sink_log' = sink_log
            /\ ~ runtime_data'
            /\ ~ sensors_added'
            /\ service_registered' = service_registered
            /\ ~ service_registered']_vars

\* C21 witness: a record that had been loaded and unloaded is set up again with a token
\* the client refuses
C21_Witness ==
    /\ entry_state = "setup_error"
    /\ outcome = "snapshot"
    /\ client = "none"
    /\ ~ runtime_data /\ ~ sensors_added /\ ~ service_registered

\* the order the five fetches are to be issued in
FiveFetchers == <<"daily_consumption", "load_curve", "max_power", "daily_production",
                  "production_load_curve">>

\* C22: the fetches of a cycle are issued one per step in the fixed order; the step
\* that issues one leaves the cycle out of the fetching position, which is entered only
\* at the start of a cycle or from the delay step, and a fetch that raised APIError
\* before the fifth is followed by the delay step like one that returned.
C22_FetchesInOrderWithDelay ==
    [][/\ calls' # calls /\ calls' # <<>>
          => /\ pc = "fetch"
             /\ Len(calls') = Len(calls) + 1
             /\ calls' = SubSeq(FiveFetchers, 1, Len(calls'))
             /\ pc' # "fetch"
       /\ pc' = "fetch" /\ pc # "fetch"
          => \/ pc = "idle" /\ calls' = <<>>
             \/ pc = "sleep" /\ calls' = calls /\ calls # <<>>
       /\ pc = "sleep" => pc' = "fetch"
       /\ pc = "fetch" /\ Len(calls) < 4
          => \A f \in CycleFetch(today) :
                f.raises \in {"none", "APIError"} /\ Fetch(f) => pc' = "sleep"]_vars

\* C22 witness: the five fetches were issued, the first three having raised APIError
C22_Witness ==
    /\ pc = "check"
    /\ calls = FiveFetchers
    /\ primary_failed

\* the sensors that show the last value of a series
LastValueKeys == {"daily_consumption", "current_power", "max_power", "daily_production",
                  "current_production_power"}

\* the value of the last reading of the series behind the sensor, if there is one
LastOfBacking(key) ==
    LET series == coordinator_data.fields[Backing(key)]
        n == Len(series.interval_reading)
    IN  IF coordinator_data.present /\ series.present /\ n >= 1
        THEN [some |-> TRUE, value |-> series.interval_reading[n].value]
        ELSE [some |-> FALSE, value |-> 0]

\* C23: each last-value sensor shows the value of the last reading of its backing series
\* in the current snapshot, and no value when the snapshot is missing, the series is
\* absent or it has no readings; writing the sensors' state issues no fetch and touches
\* neither the statistics nor the snapshot.
C23_LastValueProjection ==
    /\ [](\A key \in LastValueKeys :
            /\ native_value(key) = LastOfBacking(key)
            /\ sensor_state[key].written
                  => sensor_state[key].native_value = LastOfBacking(key))
    /\ [][sensor_state' # sensor_state
            => /\ calls' = calls /\ import_calls' = import_calls
               /\ stats' = stats /\ batch' = batch /\ sink_log' = sink_log
               /\ coordinator_data' = coordinator_data]_vars

\* C23 witness: the sensors wrote their state from a snapshot in which daily production
\* has two readings, the load curve is present but empty and max power is absent
C23_Witness ==
    /\ sensor_state["daily_production"].written
    /\ Len(coordinator_data.fields["daily_production"].interval_reading) = 2
    /\ sensor_state["daily_production"].native_value = [some |-> TRUE, value |-> 2]
    /\ coordinator_data.fields["load_curve"].present
    /\ ~ sensor_state["current_power"].native_value.some
    /\ ~ coordinator_data.fields["max_power"].present
    /\ ~ sensor_state["max_power"].native_value.some

\* C24: an incremental merge emits production points exactly for the fetched production
\* readings that start strictly after the last stored production point (all of them when
\* none is stored), with sums continuing from the last stored production sum (from 0 when
\* none is stored), whatever is stored for consumption.
C24_ProductionIndependent ==
    [][\A dc \in MeteringOpt, dp \in Series :
         MergeStep(dc, dp)
            => LET prior == stats[production_statistic_id]
                   t == IF prior = {} THEN 0 ELSE Latest(prior).start
                   s == IF prior = {} THEN 0 ELSE Latest(prior).sum
               IN  batch'[production_statistic_id]
                     = PointsFrom(ReadingsAfter(dp.interval_reading, t), s)]_vars

\* a series with zero readings: absent, or present with an empty interval_reading
NoReadings(series) == ~ series.present \/ Len(series.interval_reading) = 0

\* the write call of a statistic id, as logged
AddCall(id) == IF id = "energy_consumption" THEN "add_consumption" ELSE "add_production"

\* what a merge run on the stored state, given dc and dp, emits for id, stores for id,
\* and calls on the recorder
WouldEmit(id, dc, dp) ==
    Batches(consumption_statistics(dc), production_statistics(dp))[id]

WouldStore(id, dc, dp) ==
    Submit(consumption_statistics(dc), production_statistics(dp))[id]

WouldCall(dc, dp) ==
    SinkCalls(MergeReads, consumption_statistics(dc), production_statistics(dp))

\* a merge given dc and dp emits nothing for id, leaves its stored points alone and
\* makes no write call for it
WouldBeSilent(id, dc, dp) ==
    /\ WouldEmit(id, dc, dp) = <<>>
    /\ WouldStore(id, dc, dp) = stats[id]
    /\ \A i \in 1 .. Len(WouldCall(dc, dp)) : WouldCall(dc, dp)[i] # AddCall(id)

\* C25: in a merge, a series with zero readings (absent or empty) yields no point and
\* no write call for its statistic id, and what is emitted and stored for the other
\* series is what the merge would emit and store for it, on the same stored state, were
\* the first series any series with readings; and a merge step that emitted no point for
\* a series made no write call for it and left its stored points alone.
C25_EmptySeriesIsNeutral ==
    /\ [](Len(history) < MaxOps
            => \A none \in {x \in MeteringOpt : NoReadings(x)}, other \in MeteringOpt :
                 /\ WouldBeSilent("energy_consumption", none, other)
                 /\ WouldBeSilent("energy_production", other, none)
                 /\ \A some \in {x \in MeteringOpt : ~ NoReadings(x)} :
                       /\ WouldEmit("energy_production", none, other)
                             = WouldEmit("energy_production", some, other)
                       /\ WouldStore("energy_production", none, other)
                             = WouldStore("energy_production", some, other)
                       /\ WouldEmit("energy_consumption", other, none)
                             = WouldEmit("energy_consumption", other, some)
                       /\ WouldStore("energy_consumption", other, none)
                             = WouldStore("energy_consumption", other, some))
    /\ [][history' = Append(history, "merge")
            => \A id \in StatisticIds :
                 batch'[id] = <<>>
                    => /\ stats'[id] = stats[id]
                       /\ \A i \in 1 .. Len(sink_log') : sink_log'[i] # AddCall(id)]_vars

\* C25 witness: with a consumption point stored, a merge given no consumption readings
\* emitted production points only
C25_Witness ==
    /\ history = <<"merge", "merge">>
    /\ stats["energy_consumption"] # {}
    /\ batch["energy_consumption"] = <<>>
    /\ Len(batch["energy_production"]) > 0
    /\ sink_log = <<"get_last_consumption", "get_last_production", "add_production">>

\* C26: a historical import that completes, for a series with a prior stored point,
\* emits one point for every fetched reading, in order and without skipping the days on
\* or before the last stored one, with sums continuing from the last stored sum of that
\* series.
C26_ImportNoSkipContinuesSums ==
    [][(history' = Append(history, "import") /\ import_result' = "done")
          => \A cf \in {f \in DailyFetch : BatchBuiltFrom("energy_consumption", f)} :
               \A pf \in {f \in DailyFetch : BatchBuiltFrom("energy_production", f)} :
                 ImportStep(cf, pf)
                    => /\ (stats["energy_consumption"] # {} /\ cf.raises = "none")
                            => batch'["energy_consumption"]
                                 = PointsFrom(cf.value.interval_reading,
                                              Latest(stats["energy_consumption"]).sum)
                       /\ (stats["energy_production"] # {} /\ pf.raises = "none")
                            => batch'["energy_production"]
                                 = PointsFrom(pf.value.interval_reading,
                                              Latest(stats["energy_production"]).sum)]_vars

FourOutcomes == {"snapshot", "auth_failed", "no_data", "comm_failed"}

\* C28: a cycle that has ended did so with exactly one outcome among snapshot returned,
\* authentication failure, no-data failure and communication failure, having called each
\* of the five fetchers at most once.
C28_CycleEndsInOneOfFour ==
    (pc = "idle" /\ outcome # "none")
       => /\ outcome \in FourOutcomes
          /\ \A i \in 1 .. Len(calls) : \A j \in 1 .. Len(calls) :
                calls[i] = calls[j] => i = j

\* the three failures of a cycle that come before the statistics commit
EarlyFailures == {"auth_failed", "no_data", "comm_failed"}

\* C29: a cycle touches the statistics sink (a recorder call, a stored or submitted
\* point) only in the step that follows the fifth fetch and only when the no-data check
\* passes; a cycle that ended in authentication, no-data or communication failure made
\* no recorder call.
C29_SinkOnlyAfterPassedCheck ==
    /\ []((pc = "idle" /\ outcome \in EarlyFailures) => sink_log = <<>>)
    /\ [][(stats' # stats \/ batch' # batch \/ (sink_log' # sink_log /\ sink_log' # <<>>))
            => /\ pc = "check"
               /\ calls = FiveFetchers
               /\ ~ AllThreeAbsent(data)
               /\ outcome' \notin EarlyFailures]_vars

\* C29 witness: a cycle fetched a production series but none of the three primary ones
\* and ended as a no-data failure without any recorder call
C29_Witness ==
    /\ pc = "idle"
    /\ outcome = "no_data"
    /\ calls = FiveFetchers
    /\ data["daily_production"].present
    /\ sink_log = <<>>
    /\ \A id \in StatisticIds : stats[id] = {}

\* C30: a fetch that raises an exception that is neither AuthenticationError nor APIError
\* ends the cycle at that fetch as a communication failure, which is neither the
\* authentication nor the no-data failure, whatever the earlier fetches of the cycle did:
\* the snapshot is kept, no later fetcher is called and no recorder call is made.
C30_OtherExceptionIsCommFailure ==
    /\ [][pc = "fetch"
            => \A f \in CycleFetch(today) :
                 (f.raises = "Exception" /\ Fetch(f))
                    => /\ pc' = "idle"
                       /\ outcome' = "comm_failed"
                       /\ outcome' \notin {"auth_failed", "no_data", "snapshot"}
                       /\ calls' = SubSeq(FiveFetchers, 1, Len(calls) + 1)
                       /\ coordinator_data' = coordinator_data
                       /\ ~ last_update_success'
                       /\ sink_log' = <<>>]_vars
    /\ []((pc = "idle" /\ outcome = "comm_failed")
            => /\ Len(calls) >= 1
               /\ calls = SubSeq(FiveFetchers, 1, Len(calls))
               /\ ~ data[calls[Len(calls)]].present)

\* C30 witness: the third fetch raised such an exception after the first two had
\* returned a series; the fourth and fifth fetchers were not called
C30_Witness ==
    /\ pc = "idle"
    /\ outcome = "comm_failed"
    /\ calls = <<"daily_consumption", "load_curve", "max_power">>
    /\ data["daily_consumption"].present
    /\ data["load_curve"].present
    /\ ~ last_update_success

----------------------------------------------------------------------------
(* Claims C31..C34 *)

\* the fetchers an import called, in order
ImportFetchers(log) == [i \in 1 .. Len(log) |-> log[i].fetcher]

\* the step wrote nothing to the sink: no stored point changed, no batch was handed
\* over, no write call was made
WroteNothing ==
    /\ stats' = stats
    /\ \A id \in StatisticIds : batch'[id] = <<>>
    /\ \A i \in 1 .. Len(sink_log') :
          sink_log'[i] \notin {"add_consumption", "add_production"}

\* the production points of the step are one per reading of series, in order, and stored
ProductionWritten(series) ==
    /\ Len(batch'["energy_production"]) = Len(series.interval_reading)
    /\ \A k \in 1 .. Len(series.interval_reading) :
          /\ batch'["energy_production"][k].start = 24 * series.interval_reading[k].date
          /\ batch'["energy_production"][k].state = series.interval_reading[k].value
          /\ batch'["energy_production"][k] \in stats'["energy_production"]
    /\ Len(series.interval_reading) > 0
          => \E i \in 1 .. Len(sink_log') : sink_log'[i] = "add_production"

\* C31: in a historical import, an AuthenticationError from the consumption fetch or
\* from the production fetch is raised to the caller and nothing is written to the sink
\* (the production fetch is not issued in the first case, and the consumption points
\* built before it are not written in the second); an APIError from the consumption
\* fetch is followed by the production fetch and the write of the production points.
C31_ImportAuthErrorWritesNothing ==
    [][history' = Append(history, "import")
         => /\ \/ /\ import_result' = "raised"
                   /\ WroteNothing
                   /\ ImportFetchers(import_calls') = <<"get_daily_consumption">>
               \/ \A pf \in DailyFetch : ~ ImportStep(Raise("AuthenticationError"), pf)
            /\ \/ /\ import_result' = "raised"
                   /\ WroteNothing
                   /\ ImportFetchers(import_calls')
                        = <<"get_daily_consumption", "get_daily_production">>
               \/ \A cf \in {f \in DailyFetch : f.raises \in {"none", "APIError"}} :
                     ~ ImportStep(cf, Raise("AuthenticationError"))
            /\ batch'["energy_consumption"] = <<>>
                  => \A pf \in {f \in DailyFetch : f.raises = "none"
                                       /\ BatchBuiltFrom("energy_production", f)} :
                       \/ /\ import_result' = "done"
                          /\ ImportFetchers(import_calls')
                               = <<"get_daily_consumption", "get_daily_production">>
                          /\ ProductionWritten(pf.value)
                          /\ stats'["energy_consumption"] = stats["energy_consumption"]
                       \/ ~ ImportStep(Raise("APIError"), pf)]_vars

\* C31 witness: after a merge stored a consumption point, an import whose production
\* fetch raised ended with both fetchers called and the stored points as they were
C31_Witness ==
    /\ history = <<"merge", "import">>
    /\ import_result = "raised"
    /\ ImportFetchers(import_calls) = <<"get_daily_consumption", "get_daily_production">>
    /\ stats["energy_consumption"] # {}
    /\ \A id \in StatisticIds : batch[id] = <<>>
    /\ sink_log = <<"get_last_consumption", "get_last_production">>

\* some record of the domain is loaded
SomeRecordLoaded == \E prm \in RecordPrms : records[prm].state \in {"loaded", "failed_unload"}

\* C32: after any sequence of setups and unloads of the records of the domain, the
\* import_historical_data service is registered exactly when at least one record is
\* loaded.
C32_ServiceIffSomeRecordLoaded == service_registered <=> SomeRecordLoaded

\* C33: a call of the registered service made while some record of the domain is loaded
\* runs the import on the coordinator of a record that is loaded at the call, with a
\* client that no unload has closed.
C33_ServiceRunsOnLoadedRecord ==
    [][(InvokeService /\ SomeRecordLoaded)
          => /\ invoked'.state \in {"loaded", "failed_unload"}
             /\ invoked'.current
             /\ invoked'.client = "open"]_vars

\* C34: the flow is at the point-selection step only with more than one PRM to choose
\* from: the list of choices of the select_prm form is never empty, and a token whose
\* client reports zero PRMs does not lead to that form.
C34_SelectionHasChoices == flow_step = "select_prm" => Len(flow_prms) > 1

====
